---- MODULE Spec2Model ----
(***************************************************************************)
(* Model of the arcat atmospheric-river categorization routines.           *)
(*                                                                         *)
(*   utils (src/arcat/.ipynb_checkpoints/utils-checkpoint.py):             *)
(*       compute_steps_per_day, bin_ivt, cumulative_reset,                 *)
(*       max_bounded_replace                                               *)
(*   core  (src/arcat/core.py):                                            *)
(*       _adjust_segment, _apply_duration_rule,                            *)
(*       AR_categorization_scheme, AR_categorization_evolution_scheme      *)
(*   core, notebook checkpoint revision                                    *)
(*         (src/arcat/.ipynb_checkpoints/core-checkpoint.py):              *)
(*       the same four functions, suffixed _ckpt here; this revision also  *)
(*       computes duration_arr and ivt_event.                              *)
(*                                                                         *)
(* Arrays are sequences.  Python indices are kept 0-based inside the loops *)
(* (start, end, i) exactly as in the source; element i of a numpy array is *)
(* arr[i + 1] of the sequence.  IVT values and bin widths are integers, so *)
(* np.floor(ivt / bin_width) is integer floor division.                    *)
(***************************************************************************)
EXTENDS Integers, Sequences, FiniteSets

VARIABLES
    ivt_array,              \* the caller's IVT time series
    time_resolution_hours,  \* configuration
    bin_width,              \* configuration
    max_category,           \* configuration
    op,                     \* name of the function called last
    arg,                    \* the arguments of that call (array arguments)
    ret                     \* what that call returned

vars == <<ivt_array, time_resolution_hours, bin_width, max_category, op, arg, ret>>

\* ------------------------------------------------------------- bounds
MaxLen == 4
MaxIvt == 2
MaxCat == 2

TimeResolutions == {12, 24, 48}
BinWidths == {1, 2}

SeqsUpTo(S, n) == UNION {[1..k -> S] : k \in 0..n}

\* ------------------------------------------------------ numpy helpers
\* Python's None, as held by `start`
None == -1

Min2(a, b) == IF a <= b THEN a ELSE b
Max2(a, b) == IF a >= b THEN a ELSE b

\* np.clip(arr, lo, hi) == minimum(maximum(arr, lo), hi), elementwise
np_clip(arr, lo, hi) == [k \in 1..Len(arr) |-> Min2(Max2(arr[k], lo), hi)]

\* arr[start:end] += d   (0-based half-open slice)
slice_add(arr, start, end, d) ==
    [k \in 1..Len(arr) |-> IF start + 1 <= k /\ k <= end THEN arr[k] + d ELSE arr[k]]

\* arr[start:end] = v
slice_assign(arr, start, end, v) ==
    [k \in 1..Len(arr) |-> IF start + 1 <= k /\ k <= end THEN v ELSE arr[k]]

\* np.max(arr[start:end]), start < end
np_max(arr, start, end) ==
    CHOOSE m \in {arr[k] : k \in (start + 1)..end} :
        \A k \in (start + 1)..end : arr[k] <= m

\* np.where(mask, a, 0)
np_where(mask, a) == [k \in 1..Len(a) |-> IF mask[k] THEN a[k] ELSE 0]

\* final_categories > 0
greater_zero(arr) == [k \in 1..Len(arr) |-> arr[k] > 0]

\* -------------------------------------------------------------- utils
compute_steps_per_day(trh) == 24 \div trh

bin_ivt(ivt, bw, mc) ==
    LET bins == [k \in 1..Len(ivt) |-> ivt[k] \div bw]
    IN  np_clip(bins, 0, mc)

RECURSIVE cumulative_reset_loop(_, _, _, _, _)
cumulative_reset_loop(values, mask, result, running_sum, i) ==
    IF i >= Len(values) THEN result
    ELSE LET rs == IF mask[i + 1] = FALSE THEN 0 ELSE running_sum + values[i + 1]
         IN  cumulative_reset_loop(values, mask,
                                   [result EXCEPT ![i + 1] = rs], rs, i + 1)

\* mutant: the running sum is never reset
RECURSIVE cumulative_reset_noreset_loop(_, _, _, _, _)
cumulative_reset_noreset_loop(values, mask, result, running_sum, i) ==
    IF i >= Len(values) THEN result
    ELSE LET rs == IF mask[i + 1] = FALSE THEN running_sum
                   ELSE running_sum + values[i + 1]
         IN  cumulative_reset_noreset_loop(values, mask,
                                           [result EXCEPT ![i + 1] = rs], rs, i + 1)

cumulative_reset_noreset(values, mask) ==
    cumulative_reset_noreset_loop(values, mask, [k \in 1..Len(values) |-> 0], 0, 0)

\* mutant: a masked-out timestep reports 0 but the running sum carries on
RECURSIVE cumulative_reset_carry_loop(_, _, _, _, _)
cumulative_reset_carry_loop(values, mask, result, running_sum, i) ==
    IF i >= Len(values) THEN result
    ELSE IF mask[i + 1] = FALSE
         THEN cumulative_reset_carry_loop(values, mask,
                  [result EXCEPT ![i + 1] = 0], running_sum, i + 1)
         ELSE cumulative_reset_carry_loop(values, mask,
                  [result EXCEPT ![i + 1] = running_sum + values[i + 1]],
                  running_sum + values[i + 1], i + 1)

cumulative_reset_carry(values, mask) ==
    cumulative_reset_carry_loop(values, mask, [k \in 1..Len(values) |-> 0], 0, 0)

cumulative_reset(values, mask) ==
    cumulative_reset_loop(values, mask, [k \in 1..Len(values) |-> 0], 0, 0)

\* the for-loop of max_bounded_replace; returns <<arr, start>> after the loop
RECURSIVE max_bounded_replace_loop(_, _, _)
max_bounded_replace_loop(arr, start, i) ==
    IF i >= Len(arr) THEN <<arr, start>>
    ELSE IF arr[i + 1] = 0
         THEN IF start # None
              THEN max_bounded_replace_loop(
                       slice_assign(arr, start, i, np_max(arr, start, i)), None, i + 1)
              ELSE max_bounded_replace_loop(arr, start, i + 1)
         ELSE IF start = None
              THEN max_bounded_replace_loop(arr, i, i + 1)
              ELSE max_bounded_replace_loop(arr, start, i + 1)

\* mutant: a run that reaches the last index is not collapsed
max_bounded_replace_notail(arr0) == max_bounded_replace_loop(arr0, None, 0)[1]

\* mutant: the slice written at the end of a run includes the closing zero
RECURSIVE max_bounded_replace_inclusive_loop(_, _, _)
max_bounded_replace_inclusive_loop(arr, start, i) ==
    IF i >= Len(arr) THEN <<arr, start>>
    ELSE IF arr[i + 1] = 0
         THEN IF start # None
              THEN max_bounded_replace_inclusive_loop(
                       slice_assign(arr, start, i + 1, np_max(arr, start, i)),
                       None, i + 1)
              ELSE max_bounded_replace_inclusive_loop(arr, start, i + 1)
         ELSE IF start = None
              THEN max_bounded_replace_inclusive_loop(arr, i, i + 1)
              ELSE max_bounded_replace_inclusive_loop(arr, start, i + 1)

max_bounded_replace_inclusive(arr0) ==
    LET n     == Len(arr0)
        r     == max_bounded_replace_inclusive_loop(arr0, None, 0)
        arr   == r[1]
        start == r[2]
    IN  IF start # None
        THEN slice_assign(arr, start, n, np_max(arr, start, n))
        ELSE arr

max_bounded_replace(arr0) ==
    LET n     == Len(arr0)
        r     == max_bounded_replace_loop(arr0, None, 0)
        arr   == r[1]
        start == r[2]
    IN  IF start # None
        THEN slice_assign(arr, start, n, np_max(arr, start, n))
        ELSE arr

\* --------------------------------------------------------------- core
\* mutant: a run of exactly one day is downgraded too
_adjust_segment_le(arr, start, end, duration, steps_per_day) ==
    IF duration <= steps_per_day THEN slice_add(arr, start, end, -1)
    ELSE IF duration >= 2 * steps_per_day THEN slice_add(arr, start, end, 1)
    ELSE arr

\* mutant: the adjusted slice runs one element past the run
_adjust_segment_inclusive(arr, start, end, duration, steps_per_day) ==
    IF duration < steps_per_day THEN slice_add(arr, start, end + 1, -1)
    ELSE IF duration >= 2 * steps_per_day THEN slice_add(arr, start, end + 1, 1)
    ELSE arr

_adjust_segment(arr, start, end, duration, steps_per_day) ==
    IF duration < steps_per_day THEN slice_add(arr, start, end, -1)
    ELSE IF duration >= 2 * steps_per_day THEN slice_add(arr, start, end, 1)
    ELSE arr

\* the for-loop of _apply_duration_rule; returns <<final, start>>
RECURSIVE _apply_duration_rule_loop(_, _, _, _, _)
_apply_duration_rule_loop(categories, final, start, i, steps_per_day) ==
    IF i >= Len(categories) THEN <<final, start>>
    ELSE IF categories[i + 1] = 0
         THEN IF start # None
              THEN LET end      == i
                       duration == end - start
                   IN  _apply_duration_rule_loop(categories,
                           _adjust_segment(final, start, end, duration, steps_per_day),
                           None, i + 1, steps_per_day)
              ELSE _apply_duration_rule_loop(categories, final, start, i + 1, steps_per_day)
         ELSE IF start = None
              THEN _apply_duration_rule_loop(categories, final, i, i + 1, steps_per_day)
              ELSE _apply_duration_rule_loop(categories, final, start, i + 1, steps_per_day)

\* mutant: the final np.clip is missing
_apply_duration_rule_noclip(categories, steps_per_day, mc) ==
    LET n     == Len(categories)
        r     == _apply_duration_rule_loop(categories, categories, None, 0, steps_per_day)
        final == r[1]
        start == r[2]
    IN  IF start # None
        THEN _adjust_segment(final, start, n, n - start, steps_per_day)
        ELSE final

_apply_duration_rule(categories, steps_per_day, mc) ==
    LET n     == Len(categories)
        r     == _apply_duration_rule_loop(categories, categories, None, 0, steps_per_day)
        final == r[1]
        start == r[2]
        done  == IF start # None
                 THEN LET end      == n
                          duration == end - start
                      IN  _adjust_segment(final, start, end, duration, steps_per_day)
                 ELSE final
    IN  np_clip(done, 0, mc)

AR_categorization_scheme(ivt, trh, bw, mc) ==
    LET steps_per_day    == compute_steps_per_day(trh)
        original_ivt     == ivt
        categories       == max_bounded_replace(bin_ivt(ivt, bw, mc))
        final_categories == _apply_duration_rule(categories, steps_per_day, mc)
        mask             == greater_zero(final_categories)
        cumulative_ivt   == cumulative_reset(original_ivt, mask)
    IN  <<final_categories, cumulative_ivt>>

\* mutant: the mask is taken from the binned categories, not the final ones
AR_categorization_evolution_scheme_rawmask(ivt, trh, bw, mc) ==
    LET steps_per_day    == compute_steps_per_day(trh)
        categories       == bin_ivt(ivt, bw, mc)
        final_categories == _apply_duration_rule(categories, steps_per_day, mc)
        mask             == greater_zero(categories)
        cumulative_ivt   == cumulative_reset(ivt, mask)
    IN  <<final_categories, cumulative_ivt>>

AR_categorization_evolution_scheme(ivt, trh, bw, mc) ==
    LET steps_per_day    == compute_steps_per_day(trh)
        original_ivt     == ivt
        categories       == bin_ivt(ivt, bw, mc)
        final_categories == _apply_duration_rule(categories, steps_per_day, mc)
        mask             == greater_zero(final_categories)
        cumulative_ivt   == cumulative_reset(original_ivt, mask)
    IN  <<final_categories, cumulative_ivt>>

\* ------------------------------------------- core, checkpoint revision
_adjust_segment_ckpt(arr, start, end, duration, steps_per_day) ==
    IF duration < steps_per_day THEN slice_add(arr, start, end, -1)
    ELSE IF duration >= 2 * steps_per_day THEN slice_add(arr, start, end, 1)
    ELSE arr

\* the for-loop; returns <<final, duration_arr, start>>
RECURSIVE _apply_duration_rule_ckpt_loop(_, _, _, _, _, _)
_apply_duration_rule_ckpt_loop(categories, final, duration_arr, start, i, steps_per_day) ==
    IF i >= Len(categories) THEN <<final, duration_arr, start>>
    ELSE IF categories[i + 1] = 0
         THEN IF start # None
              THEN LET end      == i
                       duration == end - start
                   IN  _apply_duration_rule_ckpt_loop(categories,
                           _adjust_segment_ckpt(final, start, end, duration, steps_per_day),
                           slice_assign(duration_arr, start, end, duration),
                           None, i + 1, steps_per_day)
              ELSE _apply_duration_rule_ckpt_loop(categories, final, duration_arr,
                                                  start, i + 1, steps_per_day)
         ELSE IF start = None
              THEN _apply_duration_rule_ckpt_loop(categories, final, duration_arr,
                                                  i, i + 1, steps_per_day)
              ELSE _apply_duration_rule_ckpt_loop(categories, final, duration_arr,
                                                  start, i + 1, steps_per_day)

\* mutant: the duration of a run that reaches the last index is not stored
_apply_duration_rule_ckpt_notail(categories, steps_per_day, mc) ==
    LET n     == Len(categories)
        r     == _apply_duration_rule_ckpt_loop(categories, categories,
                     [k \in 1..n |-> 0], None, 0, steps_per_day)
        final == r[1]
        dur   == r[2]
        start == r[3]
    IN  IF start # None
        THEN <<np_clip(_adjust_segment_ckpt(final, start, n, n - start, steps_per_day), 0, mc),
               dur>>
        ELSE <<np_clip(final, 0, mc), dur>>

_apply_duration_rule_ckpt(categories, steps_per_day, mc) ==
    LET n     == Len(categories)
        r     == _apply_duration_rule_ckpt_loop(categories, categories,
                     [k \in 1..n |-> 0], None, 0, steps_per_day)
        final == r[1]
        dur   == r[2]
        start == r[3]
        end      == n
        duration == end - start
    IN  IF start # None
        THEN <<np_clip(_adjust_segment_ckpt(final, start, end, duration, steps_per_day), 0, mc),
               slice_assign(dur, start, end, duration)>>
        ELSE <<np_clip(final, 0, mc), dur>>

AR_categorization_scheme_ckpt(ivt, trh, bw, mc) ==
    LET steps_per_day  == compute_steps_per_day(trh)
        original_ivt   == ivt
        categories     == max_bounded_replace(bin_ivt(ivt, bw, mc))
        r              == _apply_duration_rule_ckpt(categories, steps_per_day, mc)
        final_categories == r[1]
        duration_event   == r[2]
        mask           == greater_zero(final_categories)
        cumulative_ivt == cumulative_reset(original_ivt, mask)
        ivt_event      == np_where(mask, original_ivt)
    IN  <<final_categories, cumulative_ivt, ivt_event, duration_event>>

AR_categorization_evolution_scheme_ckpt(ivt, trh, bw, mc) ==
    LET steps_per_day  == compute_steps_per_day(trh)
        original_ivt   == ivt
        categories     == bin_ivt(ivt, bw, mc)
        r              == _apply_duration_rule_ckpt(categories, steps_per_day, mc)
        final_categories == r[1]
        duration_event   == r[2]
        mask           == greater_zero(final_categories)
        cumulative_ivt == cumulative_reset(original_ivt, mask)
        ivt_event      == np_where(mask, original_ivt)
    IN  <<final_categories, cumulative_ivt, ivt_event, duration_event>>

\* ------------------------------------------------------ state machine
\* One behaviour is one invocation: the functions keep no state between
\* calls, so every call starts from the idle state op = "none".
Init ==
    /\ ivt_array \in SeqsUpTo(0..MaxIvt, MaxLen)
    /\ time_resolution_hours \in TimeResolutions
    /\ bin_width \in BinWidths
    /\ max_category \in 0..MaxCat
    /\ op = "none"
    /\ arg = <<>>
    /\ ret = <<>>

Config == UNCHANGED <<ivt_array, time_resolution_hours, bin_width, max_category>>

Binned == bin_ivt(ivt_array, bin_width, max_category)
StepsPerDay == compute_steps_per_day(time_resolution_hours)

Call_bin_ivt ==
    /\ op = "none"
    /\ op' = "bin_ivt"
    /\ arg' = ivt_array
    /\ ret' = bin_ivt(ivt_array, bin_width, max_category)
    /\ Config

Call_max_bounded_replace ==
    /\ op = "none"
    /\ op' = "max_bounded_replace"
    /\ arg' = Binned
    /\ ret' = max_bounded_replace(Binned)
    /\ Config

\* the Duration Adjuster is handed either the binned categories (evolution
\* scheme) or the collapsed ones (event scheme)
Call_apply_duration_rule ==
    \E categories \in {Binned, max_bounded_replace(Binned)} :
        /\ op = "none"
        /\ op' = "_apply_duration_rule"
        /\ arg' = categories
        /\ ret' = _apply_duration_rule(categories, StepsPerDay, max_category)
        /\ Config

Call_apply_duration_rule_ckpt ==
    \E categories \in {Binned, max_bounded_replace(Binned)} :
        /\ op = "none"
        /\ op' = "_apply_duration_rule_ckpt"
        /\ arg' = categories
        /\ ret' = _apply_duration_rule_ckpt(categories, StepsPerDay, max_category)
        /\ Config

Call_AR_categorization_scheme ==
    /\ op = "none"
    /\ op' = "AR_categorization_scheme"
    /\ arg' = ivt_array
    /\ ret' = AR_categorization_scheme(ivt_array, time_resolution_hours,
                                       bin_width, max_category)
    /\ Config

Call_AR_categorization_evolution_scheme ==
    /\ op = "none"
    /\ op' = "AR_categorization_evolution_scheme"
    /\ arg' = ivt_array
    /\ ret' = AR_categorization_evolution_scheme(ivt_array, time_resolution_hours,
                                                 bin_width, max_category)
    /\ Config

Call_AR_categorization_scheme_ckpt ==
    /\ op = "none"
    /\ op' = "AR_categorization_scheme_ckpt"
    /\ arg' = ivt_array
    /\ ret' = AR_categorization_scheme_ckpt(ivt_array, time_resolution_hours,
                                            bin_width, max_category)
    /\ Config

Call_AR_categorization_evolution_scheme_ckpt ==
    /\ op = "none"
    /\ op' = "AR_categorization_evolution_scheme_ckpt"
    /\ arg' = ivt_array
    /\ ret' = AR_categorization_evolution_scheme_ckpt(ivt_array, time_resolution_hours,
                                                      bin_width, max_category)
    /\ Config

Next ==
    \/ Call_bin_ivt
    \/ Call_max_bounded_replace
    \/ Call_apply_duration_rule
    \/ Call_apply_duration_rule_ckpt
    \/ Call_AR_categorization_scheme
    \/ Call_AR_categorization_evolution_scheme
    \/ Call_AR_categorization_scheme_ckpt
    \/ Call_AR_categorization_evolution_scheme_ckpt

Spec == Init /\ [][Next]_vars

\* cumulative_reset on its own: any values, any mask of the same length
InitCumulative ==
    /\ ivt_array \in SeqsUpTo(0..MaxIvt, MaxLen)
    /\ time_resolution_hours = 12
    /\ bin_width = 1
    /\ max_category = MaxCat
    /\ op = "none"
    /\ arg = <<>>
    /\ ret = <<>>

Call_cumulative_reset ==
    \E mask \in [1..Len(ivt_array) -> BOOLEAN] :
        /\ op = "none"
        /\ op' = "cumulative_reset"
        /\ arg' = <<ivt_array, mask>>
        /\ ret' = cumulative_reset(ivt_array, mask)
        /\ Config

NextCumulative == Call_cumulative_reset

SpecCumulative == InitCumulative /\ [][NextCumulative]_vars

\* ============================================================ properties
\* Declarative vocabulary of the claims (1-based positions of a sequence c).
\* The maximal nonzero run containing position i, for c[i] # 0:
RunLo(c, i) ==
    CHOOSE s \in 1..i : /\ \A k \in s..i : c[k] # 0
                        /\ (s = 1 \/ c[s - 1] = 0)
RunHi(c, i) ==
    CHOOSE e \in i..Len(c) : /\ \A k \in i..e : c[k] # 0
                             /\ (e = Len(c) \/ c[e + 1] = 0)
RunLen(c, i) == RunHi(c, i) - RunLo(c, i) + 1
RunPeak(c, i) ==
    CHOOSE m \in {c[k] : k \in RunLo(c, i)..RunHi(c, i)} :
        \A k \in RunLo(c, i)..RunHi(c, i) : c[k] <= m

\* the duration rule as the specification words it
Shift(D, spd) == IF D < spd THEN -1 ELSE IF D >= 2 * spd THEN 1 ELSE 0
Clip(x, lo, hi) == IF x < lo THEN lo ELSE IF x > hi THEN hi ELSE x

InRange(c) == \A k \in 1..Len(c) : c[k] \in 0..max_category

RECURSIVE SumRange(_, _, _)
SumRange(v, lo, hi) == IF lo > hi THEN 0 ELSE v[hi] + SumRange(v, lo, hi - 1)

CoreSchemeOps == {"AR_categorization_scheme", "AR_categorization_evolution_scheme"}
CkptSchemeOps == {"AR_categorization_scheme_ckpt",
                  "AR_categorization_evolution_scheme_ckpt"}
SchemeOps == CoreSchemeOps \cup CkptSchemeOps

\* ------------------------------------------------------------------ C1
\* C1: both schemes return exactly four parallel sequences (final
\* categories, cumulative intensity, intensity during events, duration),
\* each as long as the input, for every input length including 0.
C1_FourSequences ==
    op \in CoreSchemeOps =>
        /\ Len(ret) = 4
        /\ \A k \in 1..Len(ret) : Len(ret[k]) = Len(ivt_array)

\* C1, checkpoint revision of core: the four sequences are returned there.
C1_FourSequences_ckpt ==
    op \in CkptSchemeOps =>
        /\ Len(ret) = 4
        /\ \A k \in 1..4 : Len(ret[k]) = Len(ivt_array)

\* ------------------------------------------------------------------ C2
\* C2: every category value lies in [0, max_category] after the Binner,
\* after the Peak Collapser, after the Duration Adjuster, and in the final
\* category sequence of both schemes.
C2_CategoryBounds ==
    /\ op \in {"bin_ivt", "max_bounded_replace", "_apply_duration_rule"} => InRange(ret)
    /\ op = "_apply_duration_rule_ckpt" => InRange(ret[1])
    /\ op \in SchemeOps => InRange(ret[1])

\* C2 witness: a run at the ceiling that the duration rule upgrades, so the
\* final clip is what keeps it at max_category.
C2_Witness ==
    /\ op = "AR_categorization_evolution_scheme"
    /\ max_category > 0
    /\ \E i \in 1..Len(ivt_array) :
          /\ Binned[i] = max_category
          /\ Shift(RunLen(Binned, i), StepsPerDay) = 1
          /\ ret[1][i] = max_category

\* ------------------------------------------------------------------ C3
\* C3: wherever the final category is 0 the cumulative intensity is 0 and
\* the intensity-during-events value is 0, in both schemes.
C3_MaskZero ==
    /\ op \in SchemeOps =>
          \A i \in 1..Len(ivt_array) : ret[1][i] = 0 => ret[2][i] = 0
    /\ op \in CkptSchemeOps =>
          \A i \in 1..Len(ivt_array) : ret[1][i] = 0 => ret[3][i] = 0

\* C3 witness: an event deleted by a downgrade to 0 (positive intensity,
\* nonzero bin, final category 0) next to an event that survives.
C3_Witness ==
    /\ op = "AR_categorization_evolution_scheme_ckpt"
    /\ \E i, j \in 1..Len(ivt_array) :
          /\ Binned[i] > 0 /\ ivt_array[i] > 0 /\ ret[1][i] = 0
          /\ ret[2][i] = 0 /\ ret[3][i] = 0
          /\ ret[1][j] > 0 /\ ret[2][j] > 0 /\ ret[3][j] > 0

\* ------------------------------------------------------------------ C4
\* C4: the Duration Adjuster maps every value of a maximal nonzero run of
\* length D to clip(v - 1) if D < steps_per_day, clip(v + 1) if
\* D >= 2 * steps_per_day and v otherwise; zeros stay 0; a run reaching the
\* last index is treated the same.
DurationRuleHolds(categories, final) ==
    /\ Len(final) = Len(categories)
    /\ \A i \in 1..Len(categories) :
          IF categories[i] = 0 THEN final[i] = 0
          ELSE LET D == RunLen(categories, i)
               IN  IF D < StepsPerDay
                   THEN final[i] = Clip(categories[i] - 1, 0, max_category)
                   ELSE IF D >= 2 * StepsPerDay
                        THEN final[i] = Clip(categories[i] + 1, 0, max_category)
                        ELSE final[i] = categories[i]

C4_DurationRule ==
    /\ op = "_apply_duration_rule" => DurationRuleHolds(arg, ret)
    /\ op = "_apply_duration_rule_ckpt" => DurationRuleHolds(arg, ret[1])

\* C4 witness: one input with a downgraded run followed by a longer run
\* that reaches the last index and is left unchanged.
C4_Witness ==
    /\ op = "_apply_duration_rule"
    /\ Len(arg) >= 4
    /\ \E i \in 1..Len(arg) :
          /\ arg[i] = 2 /\ RunLen(arg, i) < StepsPerDay /\ ret[i] = 1
    /\ arg[Len(arg)] # 0
    /\ RunLen(arg, Len(arg)) >= StepsPerDay
    /\ ret[Len(arg)] = arg[Len(arg)]

\* ------------------------------------------------------------------ C5
\* C5: in the event-based scheme every timestep of a maximal nonzero run
\* of the binned sequence gets the run's peak binned category shifted by
\* the duration rule for the whole run's length, clipped to
\* [0, max_category].
C5_EventPeak ==
    op \in {"AR_categorization_scheme", "AR_categorization_scheme_ckpt"} =>
        \A i \in 1..Len(ivt_array) :
            Binned[i] # 0 =>
                ret[1][i] = Clip(RunPeak(Binned, i)
                                   + Shift(RunLen(Binned, i), StepsPerDay),
                                 0, max_category)

\* C5 witness: a run shorter than one day with peak 1 ends at 0, beside a
\* run whose values differ and that takes its peak everywhere.
C5_Witness ==
    /\ op = "AR_categorization_scheme"
    /\ \E i, j, k \in 1..Len(ivt_array) :
          /\ Binned[i] = 1 /\ RunPeak(Binned, i) = 1
          /\ RunLen(Binned, i) < StepsPerDay /\ ret[1][i] = 0
          /\ Binned[j] # 0 /\ Binned[k] # 0
          /\ RunLo(Binned, j) = RunLo(Binned, k)
          /\ Binned[j] < Binned[k] /\ ret[1][j] = ret[1][k]

\* ------------------------------------------------------------------ C6
\* C6: cumulative_reset gives 0 where the mask is false and otherwise the
\* sum of the values after the latest mask-false position (or from the
\* start) through the current position.
LastFalse(mask, i) ==
    LET F == {k \in 1..i : mask[k] = FALSE}
    IN  IF F = {} THEN 0 ELSE CHOOSE k \in F : \A m \in F : m <= k

C6_CumulativeReset ==
    op = "cumulative_reset" =>
        LET values == arg[1]
            mask   == arg[2]
        IN  /\ Len(ret) = Len(values)
            /\ \A i \in 1..Len(values) :
                  IF mask[i] = FALSE THEN ret[i] = 0
                  ELSE ret[i] = SumRange(values, LastFalse(mask, i) + 1, i)

\* C6 witness: values accumulate over two timesteps, the mask drops, and
\* the first timestep after the reset reports its own value alone.
C6_Witness ==
    /\ op = "cumulative_reset"
    /\ Len(ret) = 4
    /\ arg[2] = <<TRUE, TRUE, FALSE, TRUE>>
    /\ arg[1][1] > 0 /\ arg[1][2] > 0 /\ arg[1][4] > 0
    /\ ret = <<arg[1][1], arg[1][1] + arg[1][2], 0, arg[1][4]>>

\* ------------------------------------------------------------------ C7
\* C7: the Duration Sequence is 0 at zero categories and otherwise the
\* length of the maximal nonzero run containing the timestep; the run
\* detection of core.py's _apply_duration_rule adjusts the same runs.
DurationSequenceHolds(categories, duration_arr) ==
    /\ Len(duration_arr) = Len(categories)
    /\ \A i \in 1..Len(categories) :
          IF categories[i] = 0 THEN duration_arr[i] = 0
          ELSE duration_arr[i] = RunLen(categories, i)

C7_DurationSequence ==
    /\ op = "_apply_duration_rule_ckpt" => DurationSequenceHolds(arg, ret[2])
    /\ op = "_apply_duration_rule" =>
          ret = _apply_duration_rule_ckpt(arg, StepsPerDay, max_category)[1]
    /\ op = "AR_categorization_scheme_ckpt" =>
          DurationSequenceHolds(max_bounded_replace(Binned), ret[4])
    /\ op = "AR_categorization_evolution_scheme_ckpt" =>
          DurationSequenceHolds(Binned, ret[4])

\* C7 witness: two runs of different lengths separated by a zero, the
\* second one reaching the last index, the first holding unequal values.
C7_Witness ==
    /\ op = "_apply_duration_rule_ckpt"
    /\ Len(arg) = 4
    /\ arg[1] # 0 /\ arg[2] # 0 /\ arg[1] # arg[2] /\ arg[3] = 0 /\ arg[4] # 0
    /\ ret[2] = <<2, 2, 0, 1>>

\* ------------------------------------------------------------------ C8
\* C8: the Peak Collapser replaces every element of a maximal nonzero run
\* by the run's maximum, leaves zeros unchanged, keeps the length, and is
\* idempotent.
C8_CollapseIdempotent ==
    op = "max_bounded_replace" =>
        /\ Len(ret) = Len(arg)
        /\ \A i \in 1..Len(arg) :
              ret[i] = IF arg[i] = 0 THEN 0 ELSE RunPeak(arg, i)
        /\ max_bounded_replace(ret) = ret

\* C8 witness: a run with unequal values is rewritten and a zero and a
\* run of length 1 pass through.
C8_Witness ==
    /\ op = "max_bounded_replace"
    /\ ret # arg
    /\ \E i \in 1..Len(arg) : arg[i] = 0
    /\ \E i \in 1..Len(arg) : arg[i] # 0 /\ RunLen(arg, i) = 1
    /\ max_bounded_replace(ret) = ret

\* ------------------------------------------------------------------ C9
\* C9: when every maximal nonzero run of the binned sequence is constant,
\* the event-based and the evolution-based scheme return the same outputs.
AllRunsConstant(c) ==
    \A i \in 1..Len(c) : c[i] # 0 => c[i] = RunPeak(c, i)

C9_SchemesAgree ==
    /\ (op = "AR_categorization_scheme" /\ AllRunsConstant(Binned)) =>
          ret = AR_categorization_evolution_scheme(ivt_array, time_resolution_hours,
                                                   bin_width, max_category)
    /\ (op = "AR_categorization_scheme_ckpt" /\ AllRunsConstant(Binned)) =>
          ret = AR_categorization_evolution_scheme_ckpt(ivt_array, time_resolution_hours,
                                                        bin_width, max_category)

\* C9 witness: a constant run of at least two days, upgraded by one at
\* every timestep.
C9_Witness ==
    /\ op = "AR_categorization_scheme"
    /\ AllRunsConstant(Binned)
    /\ StepsPerDay = 2
    /\ Len(ivt_array) >= 4
    /\ \A i \in 1..4 : Binned[i] = 1 /\ ret[1][i] = 2

\* ----------------------------------------------------------------- C10
\* C10: a binned category of 0 gives final category 0 in both schemes; in
\* the evolution scheme the final category differs from the binned one by
\* at most 1 and no run of the binned sequence has one timestep moved up
\* and another moved down.
C10_NoNewEvents ==
    /\ op \in SchemeOps =>
          \A i \in 1..Len(ivt_array) : Binned[i] = 0 => ret[1][i] = 0
    /\ op \in {"AR_categorization_evolution_scheme",
               "AR_categorization_evolution_scheme_ckpt"} =>
          /\ \A i \in 1..Len(ivt_array) :
                ret[1][i] - Binned[i] \in {-1, 0, 1}
          /\ \A i, j \in 1..Len(ivt_array) :
                (Binned[i] # 0 /\ Binned[j] # 0
                    /\ RunLo(Binned, i) = RunLo(Binned, j)) =>
                ~(ret[1][i] > Binned[i] /\ ret[1][j] < Binned[j])

\* C10 witness: a zero-bin timestep beside an upgraded run of the
\* evolution scheme in which one timestep moves up by one and another,
\* already at the ceiling, stays.
C10_Witness ==
    /\ op = "AR_categorization_evolution_scheme"
    /\ \E i, j, k \in 1..Len(ivt_array) :
          /\ Binned[i] = 0 /\ ret[1][i] = 0
          /\ Binned[j] # 0 /\ Binned[k] # 0
          /\ RunLo(Binned, j) = RunLo(Binned, k)
          /\ ret[1][j] = Binned[j]
          /\ ret[1][k] = Binned[k] + 1

====
